---- MODULE Spec2Model ----
(***************************************************************************)
(* A model of the QNX support layer of qol/musl/src/qnxsupport:            *)
(*   - spawn() and spawnve() of spawn.c, run against a small POSIX host    *)
(*     (process groups, sessions, signal dispositions, descriptors);       *)
(*   - qnx_flag_to_linux() of qfcntl.c;                                    *)
(*   - _qnx_localeconv() of localeconv.c, called from several threads;     *)
(*   - _qnx_stat() and linux_stat_to_qnx() of qstat.c;                     *)
(*   - _qnx_gettimeofday() and _qnx_settimeofday() of qtime.c.             *)
(* Each part has its own specification (Spec, SpecFlags, SpecLocale,       *)
(* SpecStat, SpecTime); the variables of the other parts stay at their     *)
(* idle values.                                                            *)
(***************************************************************************)
EXTENDS Integers, Sequences, FiniteSets, TLC

VARIABLES
    entry,      \* which entry point the caller used: "spawn" or "spawnve"
    mode,       \* spawnve's mode argument
    inherit,    \* struct inheritance handed to spawn()
    fd_count,   \* spawn()'s fd_count argument
    fd_map,     \* spawn()'s fd_map argument, a function on 0..fd_count-1
    pc,         \* per process: the source line it is at
    pid,        \* per process: spawn()'s local pid
    vepid,      \* per process: spawnve()'s local pid
    i,          \* per process: the loop counter i of spawn()
    pgid,       \* per process: process group id
    sid,        \* per process: session id
    blocked,    \* per process: blocked signal mask
    disp,       \* per process: the dispositions signal() has set, number -> disposition
    rlim,       \* per process: RLIMIT_STACK
    fds,        \* per process: descriptor number -> open file
    calls,      \* per process: the host calls made inside spawn(), in order
    steps,      \* per process: the steps of spawn()'s child path entered, in order
    reads,      \* per process: the payload fields of *inherit it has read
    ret,        \* per process: <<v>> once spawn() returned v to its caller
    veret,      \* per process: <<v>> once spawnve() returned v
    exitcode,   \* per process: <<c>> once it called exit(c)
    status,     \* per process: <<s>> once terminated, s the wait status word
    \* qfcntl.c
    fpc,        \* "idle", "call" (in _qnx_open, before the translation) or "open"
    qflags,     \* the foreign flags argument of _qnx_open
    hflags,     \* <<v>> once translated, v the flags handed to the host's open()
    \* localeconv.c
    lpc,        \* per thread: the line of _qnx_localeconv it is at
    ncalls,     \* per thread: the calls of _qnx_localeconv it has made
    initialized,\* static int initialized
    qnx_lconv,  \* static struct qnx_lconv: which of its parts have been written
    conversions,\* how often convert_musl_to_qnx_lconv was entered
    returned,   \* a call has returned &qnx_lconv
    lateWrite,  \* the record was written after a call had returned &qnx_lconv
    \* qstat.c
    spc,        \* "idle", "call" (in _qnx_stat, before the host's stat) or "done"
    hoststat,   \* the struct stat the host has for the file
    buf,        \* _qnx_stat's buf: NullBuf, or the caller's struct qnx_stat
    sret,       \* <<v>> once _qnx_stat returned v
    \* qtime.c
    tpc,        \* "idle", "out" (in the caller's code) or "done"
    clock,      \* the host's wall clock, a struct timeval
    when,       \* the caller's struct qnx_timeval
    root,       \* the caller may set the host's clock
    tcall,      \* the entry point of qtime.c called last, "" before any call
    tv,         \* that entry point's local struct timeval t, as it was left
    tret        \* <<v>> once that call returned v

spawnVars == <<entry, mode, inherit, fd_count, fd_map, pc, pid, vepid, i, pgid,
               sid, blocked, disp, rlim, fds, calls, steps, reads, ret, veret,
               exitcode, status>>

flagVars == <<fpc, qflags, hflags>>

localeVars == <<lpc, ncalls, initialized, qnx_lconv, conversions, returned, lateWrite>>

statVars == <<spc, hoststat, buf, sret>>

timeVars == <<tpc, clock, when, root, tcall, tv, tret>>

vars == <<spawnVars, flagVars, localeVars, statVars, timeVars>>

----------------------------------------------------------------------------
(* Bounds of the model *)

\* descriptors 0..MaxFd exist in the caller; a source of -1 is never open
MaxFd == 3
\* longest descriptor table handed to spawn()
MaxFdCount == 3
\* inherit.pgroup is drawn from -1..MaxPgroup
MaxPgroup == 1
\* a spawned program exits with a code in 0..MaxExit
MaxExit == 1

----------------------------------------------------------------------------
(* Program constants of spawn.c *)

SIGMAX == 64
NSIG == SIGMAX + 1

SPAWN_SETGROUP == 1
SPAWN_SETSIGMASK == 2
SPAWN_SETSIGDEF == 4
SPAWN_SETSIGIGN == 8
SPAWN_SETSID == 512
SPAWN_SETSTACKMAX == 4096
SPAWN_NOZOMBIE == 8192
SPAWN_EXEC == 65536

P_WAIT == 0
P_NOWAIT == 1
P_OVERLAY == 2
P_NOWAITO == 3

----------------------------------------------------------------------------
(* C's bit operators on non-negative integers *)

RECURSIVE BitAnd(_, _)
BitAnd(a, b) ==
    IF a = 0 \/ b = 0 THEN 0
    ELSE (a % 2) * (b % 2) + 2 * BitAnd(a \div 2, b \div 2)

RECURSIVE BitOr(_, _)
BitOr(a, b) ==
    IF a = 0 THEN b
    ELSE IF b = 0 THEN a
    ELSE (IF a % 2 = 1 \/ b % 2 = 1 THEN 1 ELSE 0) + 2 * BitOr(a \div 2, b \div 2)

RECURSIVE SumOf(_)
SumOf(S) == IF S = {} THEN 0 ELSE LET x == CHOOSE y \in S : TRUE
                                  IN  x + SumOf(S \ {x})

Min(S) == CHOOSE x \in S : \A y \in S : x <= y

----------------------------------------------------------------------------
(* The host: two processes, the caller of spawn() and the child fork() makes *)

Procs == {"caller", "child"}

\* process ids; process 1 leads session 1 and process group 1 (the shell)
Pid == [caller |-> 2, child |-> 3]
ShellPid == Pid.caller - 1

FdNums == 0 .. MaxFd
NoFile == <<>>
\* the open file descriptor n of the caller refers to when spawn() is entered
File(n) == <<n>>

SigNums == 1 .. SIGMAX
\* SIGKILL and SIGSTOP, whose disposition and blocking the kernel refuses to
\* change, and 32..34, which musl's sigaction() refuses with EINVAL
Unchangeable == {9, 19, 32, 33, 34}
Unblockable == {9, 19}

\* the dispositions the caller has when spawn() is entered
EntryDisp == [n \in SigNums |-> IF n \in Unchangeable THEN "dfl" ELSE "handler"]

Alive(p) == pc[p] \notin {"none", "terminated"}

\* process groups that exist in session s
GroupsIn(s) ==
    {pgid[q] : q \in {r \in Procs : Alive(r) /\ sid[r] = s}}
        \cup (IF s = ShellPid THEN {ShellPid} ELSE {})

\* setpgid(0, g) by p: EINVAL for g < 0, EPERM for a session leader and for a
\* group that is not in p's session
SetpgidOk(p, g) ==
    /\ g >= 0
    /\ sid[p] # Pid[p]
    /\ LET t == IF g = 0 THEN Pid[p] ELSE g
       IN  t = Pid[p] \/ t \in GroupsIn(sid[p])

\* setsid() by p: EPERM when p is already a process-group leader
SetsidOk(p) == \A q \in Procs : Alive(q) => pgid[q] # Pid[p]

\* signal(n, h): EINVAL for the signals whose disposition cannot be changed
SignalOk(n) == n \in SigNums \ Unchangeable

\* the disposition of signal n in p: what signal() set last, or the inherited one
DispOf(p, n) == IF n \in DOMAIN disp[p] THEN disp[p][n] ELSE EntryDisp[n]

IsOpen(p, fd) == fd \in FdNums /\ fds[p][fd] # NoFile

\* the wait status word of a process that called exit(c)
WaitStatusExit(c) == (c % 256) * 256

----------------------------------------------------------------------------
(* Inputs *)

AttrBits == {SPAWN_SETGROUP, SPAWN_SETSIGMASK, SPAWN_SETSIGDEF, SPAWN_SETSIGIGN,
             SPAWN_SETSID, SPAWN_SETSTACKMAX}

FlagInputs == {SumOf(S) : S \in SUBSET (AttrBits \cup {SPAWN_EXEC})}

\* signal sets: an ordinary signal (SIGINT), SIGKILL, or both
SigSets == {{2}, {9}, {2, 9}}

Inherits == [flags : FlagInputs, pgroup : -1 .. MaxPgroup, sigmask : {{2, 9}},
             sigdefault : SigSets, sigignore : SigSets, stack_max : {4}]

\* no attribute flagged: a fork or an exec in place, and nothing else
PlainInherits == [flags : {0, SPAWN_EXEC}, pgroup : {0}, sigmask : {{2, 9}},
                  sigdefault : {{2}}, sigignore : {{9}}, stack_max : {4}]

\* a reserved flag bit next to attribute flags, in a direct call of spawn()
ReservedInherits == [flags : {SPAWN_NOZOMBIE + SPAWN_SETGROUP + SPAWN_SETSIGDEF,
                              SPAWN_NOZOMBIE + SPAWN_EXEC},
                     pgroup : {0}, sigmask : {{2, 9}}, sigdefault : {{2}},
                     sigignore : {{9}}, stack_max : {4}]

\* what spawnve's uninitialised attr may hold
GarbageAttrs == [flags : {0, SumOf(AttrBits)}, pgroup : -1 .. MaxPgroup,
                 sigmask : {{2, 9}}, sigdefault : SigSets, sigignore : SigSets,
                 stack_max : {4}]

Tables == UNION {[1 .. n -> -1 .. MaxFd] : n \in 0 .. MaxFdCount}

\* the tables explored together with attribute flags: none, and one entry
SmallTables == {<<>>, <<MaxFd>>}

Modes == {P_WAIT, P_NOWAIT, P_OVERLAY, P_NOWAITO, P_NOWAITO + 1}

\* what a call that falls off the end of spawn() may hand back: execve's own
\* -1 left in the return register, or something else
GarbageRet == {-1, 0}

----------------------------------------------------------------------------
(* qfcntl.c: the open-mode flags *)

\* widest foreign flag word explored: qflags is drawn from 0 .. 2^MaxFlagBits - 1
MaxFlagBits == 13

QNX_O_RDONLY == 0
QNX_O_WRONLY == 1
QNX_O_RDWR == 2
QNX_O_NONBLOCK == 128
QNX_O_APPEND == 8
QNX_O_DSYNC == 16
QNX_O_RSYNC == 64
QNX_O_SYNC == 32
QNX_O_CREAT == 256
QNX_O_TRUNC == 512
QNX_O_EXCL == 1024
QNX_O_NOCTTY == 2048

\* the host's values, from the <fcntl.h> that qfcntl.c includes (musl, generic)
O_RDONLY == 0
O_WRONLY == 1
O_RDWR == 2
O_NONBLOCK == 2048
O_APPEND == 1024
O_DSYNC == 4096
O_RSYNC == 1052672
O_SYNC == 1052672
O_CREAT == 64
O_TRUNC == 512
O_EXCL == 128
O_NOCTTY == 256

\* a CONV_MODE that assigns, ret = O_n, where the code accumulates
CONV_MODE_assign(f, r, q, h) == IF BitAnd(f, q) # 0 THEN h ELSE r

\* lines 22-24: CONV_MODE(n), if (f & QNX_O_n) ret |= O_n
CONV_MODE(f, r, q, h) == IF BitAnd(f, q) # 0 THEN BitOr(r, h) ELSE r

\* lines 26-39: the CONV_MODE lines in their order
ConvLines ==
    << <<QNX_O_RDONLY, O_RDONLY>>, <<QNX_O_WRONLY, O_WRONLY>>,
       <<QNX_O_RDONLY, O_RDONLY>>, <<QNX_O_WRONLY, O_WRONLY>>,
       <<QNX_O_RDWR, O_RDWR>>, <<QNX_O_NONBLOCK, O_NONBLOCK>>,
       <<QNX_O_APPEND, O_APPEND>>, <<QNX_O_DSYNC, O_DSYNC>>,
       <<QNX_O_RSYNC, O_RSYNC>>, <<QNX_O_SYNC, O_SYNC>>,
       <<QNX_O_CREAT, O_CREAT>>, <<QNX_O_TRUNC, O_TRUNC>>,
       <<QNX_O_EXCL, O_EXCL>>, <<QNX_O_NOCTTY, O_NOCTTY>> >>

RECURSIVE ConvFrom(_, _, _)
ConvFrom(f, r, k) ==
    IF k > Len(ConvLines) THEN r
    ELSE ConvFrom(f, CONV_MODE(f, r, ConvLines[k][1], ConvLines[k][2]), k + 1)

\* lines 18-44: int ret = 0; the CONV_MODE lines; return ret
qnx_flag_to_linux(f) == ConvFrom(f, 0, 1)

RECURSIVE Pow2(_)
Pow2(n) == IF n = 0 THEN 1 ELSE 2 * Pow2(n - 1)

IdleFlags == fpc = "idle" /\ qflags = 0 /\ hflags = <<>>

InitFlags ==
    /\ fpc = "call"
    /\ qflags \in 0 .. Pow2(MaxFlagBits) - 1
    /\ hflags = <<>>

\* _qnx_open, lines 46-56 (and _qnx_openat, lines 58-68):
\* flags = qnx_flag_to_linux(flags); return open(filename, flags, mode)
QnxOpen ==
    /\ fpc = "call"
    /\ hflags' = <<qnx_flag_to_linux(qflags)>>
    /\ fpc' = "open"
    /\ UNCHANGED <<qflags, spawnVars, localeVars, statVars, timeVars>>

----------------------------------------------------------------------------
(* localeconv.c: _qnx_localeconv, lines 91-102 *)

\* threads of the one process
NumThreads == 2
\* calls of _qnx_localeconv each thread makes at most
MaxCalls == 2

Threads == 1 .. NumThreads

IdleLocale ==
    /\ lpc = <<>>
    /\ ncalls = <<>>
    /\ initialized = 0
    /\ qnx_lconv = {}
    /\ conversions = 0
    /\ returned = FALSE
    /\ lateWrite = FALSE

InitLocale ==
    /\ lpc = [t \in Threads |-> "out"]
    /\ ncalls = [t \in Threads |-> 0]
    /\ initialized = 0
    /\ qnx_lconv = {}
    /\ conversions = 0
    /\ returned = FALSE
    /\ lateWrite = FALSE

\* a thread calls _qnx_localeconv()
LcCall(t) ==
    /\ lpc[t] = "out"
    /\ ncalls[t] < MaxCalls
    /\ ncalls' = [ncalls EXCEPT ![t] = @ + 1]
    /\ lpc' = [lpc EXCEPT ![t] = "L95"]
    /\ UNCHANGED <<initialized, qnx_lconv, conversions, returned, lateWrite>>
    /\ UNCHANGED <<spawnVars, flagVars, statVars, timeVars>>

\* line 95: if (!initialized)
NeedsInit(v) == v = 0

LcTest(t) ==
    /\ lpc[t] = "L95"
    /\ lpc' = [lpc EXCEPT ![t] = IF NeedsInit(initialized) THEN "L96" ELSE "L101"]
    /\ UNCHANGED <<ncalls, initialized, qnx_lconv, conversions, returned, lateWrite>>
    /\ UNCHANGED <<spawnVars, flagVars, statVars, timeVars>>

\* lines 96-97: localeconv(), then convert_musl_to_qnx_lconv is entered and
\* copies the host's fields (lines 47-74)
LcConvertCopy(t) ==
    /\ lpc[t] = "L96"
    /\ conversions' = conversions + 1
    /\ qnx_lconv' = qnx_lconv \cup {"copied"}
    /\ lateWrite' = (lateWrite \/ returned)
    /\ lpc' = [lpc EXCEPT ![t] = "L76"]
    /\ UNCHANGED <<ncalls, initialized, returned>>
    /\ UNCHANGED <<spawnVars, flagVars, statVars, timeVars>>

\* lines 76-88: the fields the host does not have are set to NULL
LcConvertNull(t) ==
    /\ lpc[t] = "L76"
    /\ qnx_lconv' = qnx_lconv \cup {"nulled"}
    /\ lateWrite' = (lateWrite \/ returned)
    /\ lpc' = [lpc EXCEPT ![t] = "L98"]
    /\ UNCHANGED <<ncalls, initialized, conversions, returned>>
    /\ UNCHANGED <<spawnVars, flagVars, statVars, timeVars>>

\* line 98: initialized = 1
LcSetInitialized(t) ==
    /\ lpc[t] = "L98"
    /\ initialized' = 1
    /\ lpc' = [lpc EXCEPT ![t] = "L101"]
    /\ UNCHANGED <<ncalls, qnx_lconv, conversions, returned, lateWrite>>
    /\ UNCHANGED <<spawnVars, flagVars, statVars, timeVars>>

\* line 101: return &qnx_lconv
LcReturn(t) ==
    /\ lpc[t] = "L101"
    /\ returned' = TRUE
    /\ lpc' = [lpc EXCEPT ![t] = "out"]
    /\ UNCHANGED <<ncalls, initialized, qnx_lconv, conversions, lateWrite>>
    /\ UNCHANGED <<spawnVars, flagVars, statVars, timeVars>>

----------------------------------------------------------------------------
(* qstat.c: _qnx_stat and linux_stat_to_qnx *)

\* the upper 32 bits of a 64-bit host value are drawn from 0 .. MaxHigh
MaxHigh == 1
\* user and group ids are drawn from 0 .. MaxId and 65536 .. 65536 + MaxId
MaxId == 1
\* link counts are drawn from 1 .. MaxNlink
MaxNlink == 2

\* An integer of the C types is a sequence of 16-bit limbs, the least
\* significant first, in two's complement: two limbs for the 32-bit types
\* (lines 6-12), four for the 64-bit ones (lines 4, 5, 13)
LimbMax == 65535
Limbs32 == 2
Limbs64 == 4

Word32(lo, hi) == <<lo, hi>>
\* the 64-bit value with lower half lo and upper half hi, both below 65536
Word64(lo, hi) == <<lo, 0, hi, 0>>
\* (time_t)-1, one second before the epoch
MinusOne64 == <<LimbMax, LimbMax, LimbMax, LimbMax>>

\* the assignment of an integer to an unsigned field of w limbs that is not
\* wider: the value modulo 2^(16w), the low limbs
Narrow(v, w) == SubSeq(v, 1, w)

\* the value of an unsigned integer of up to 64 bits, as one of 64 bits
Zext(v) == v \o [k \in 1 .. Limbs64 - Len(v) |-> 0]

\* a value of a 64-bit type fits in 32 bits
Fits32(v) == \A k \in Limbs32 + 1 .. Len(v) : v[k] = 0

\* seconds the host reports: after the epoch below and above 2^32, and before it
HostSecs == {Word64(7, h) : h \in 0 .. MaxHigh} \cup {MinusOne64}

\* struct stat as the host's stat() fills it (<sys/stat.h>, line 2, 64-bit
\* host): st_dev, st_ino, st_nlink, st_rdev, st_size, st_blksize and st_blocks
\* are 64 bits wide, st_mode, st_uid and st_gid 32. The kernel keeps link
\* counts and block sizes in 32 bits, sizes and block counts are not negative.
HostStats ==
    [st_dev : {Word64(2049, h) : h \in 0 .. MaxHigh},
     st_ino : {Word64(1, h) : h \in 0 .. MaxHigh},
     st_nlink : {Word64(n, 0) : n \in 1 .. MaxNlink},
     st_mode : {Word32(33188, 0)},
     st_uid : {Word32(u, 0) : u \in 0 .. MaxId},
     st_gid : {Word32(g, 1) : g \in 0 .. MaxId},
     st_rdev : {Word64(0, 0)},
     st_size : {Word64(5, h) : h \in 0 .. MaxHigh},
     st_blksize : {Word64(4096, 0)},
     st_blocks : {Word64(8, 1)},
     st_atim : [tv_sec : HostSecs, tv_nsec : {2}],
     st_mtim : [tv_sec : HostSecs, tv_nsec : {1}],
     st_ctim : [tv_sec : HostSecs, tv_nsec : {3}]]

\* lines 15-34: the fields of struct qnx_stat
TimFields == {"st_mtim", "st_atim", "st_ctim"}
OldTimeFields == {"__old_st_mtime", "__old_st_atime", "__old_st_ctime"}
QnxStatFields ==
    {"st_ino", "st_size", "st_dev", "st_rdev", "st_uid", "st_gid", "st_mode",
     "st_nlink", "st_blocksize", "st_nblocks", "st_blksize", "st_blocks"}
        \cup OldTimeFields \cup TimFields

\* lines 4-13 and 16-30: the width of a foreign integer field, in limbs
QnxWidth(f) ==
    IF f \in {"st_ino", "st_size", "st_blocks"} THEN Limbs64 ELSE Limbs32

\* a linux_stat_to_qnx that fills the legacy fields in the order struct
\* qnx_stat declares them, from the host times in the order lines 44-46 read
AssignedFromDeclOrder(f) ==
    CASE f = "__old_st_mtime" -> "st_atim"
      [] f = "__old_st_atime" -> "st_mtim"
      [] f = "__old_st_ctime" -> "st_ctim"
      [] f = "st_blocksize" -> "st_blksize"
      [] f = "st_nblocks" -> "st_blocks"
      [] OTHER -> f

\* lines 38-57: the host field each foreign field is assigned from
AssignedFrom(f) ==
    CASE f = "__old_st_atime" -> "st_atim"
      [] f = "__old_st_mtime" -> "st_mtim"
      [] f = "__old_st_ctime" -> "st_ctim"
      [] f = "st_blocksize" -> "st_blksize"
      [] f = "st_nblocks" -> "st_blocks"
      [] OTHER -> f

\* lines 36-58: every assignment converts to the foreign field's type; the
\* struct timespec fields are copied whole
linux_stat_to_qnx(lstat) ==
    [f \in QnxStatFields |->
        LET h == lstat[AssignedFrom(f)]
        IN  IF f \in TimFields THEN h
            ELSE IF f \in OldTimeFields THEN Narrow(h.tv_sec, QnxWidth(f))
            ELSE Narrow(h, QnxWidth(f))]

\* buf when the caller passes a null pointer
NullBuf == [null |-> TRUE]

\* a struct qnx_stat the caller has not filled: a field is in the domain once
\* it has been written
Unwritten == [f \in {} |-> 0]

IdleStat == spc = "idle" /\ hoststat = <<>> /\ buf = NullBuf /\ sret = <<>>

InitStat ==
    /\ spc = "call"
    /\ hoststat \in HostStats
    /\ buf \in {NullBuf, Unwritten}
    /\ sret = <<>>

\* _qnx_stat, lines 60-67 (and _qnx_lstat, _qnx_fstat, _qnx_fstatat, lines
\* 69-95): the host call succeeds and fills local;
\* if (!ret && buf) linux_stat_to_qnx(&local, buf); return ret
QnxStatOk ==
    /\ spc = "call"
    /\ LET local == hoststat
       IN  buf' = IF buf # NullBuf THEN linux_stat_to_qnx(local) @@ buf ELSE buf
    /\ sret' = <<0>>
    /\ spc' = "done"
    /\ UNCHANGED <<hoststat, spawnVars, flagVars, localeVars, timeVars>>

\* the host call fails: ret is -1 and buf is left alone
QnxStatFail ==
    /\ spc = "call"
    /\ sret' = <<-1>>
    /\ spc' = "done"
    /\ UNCHANGED <<hoststat, buf, spawnVars, flagVars, localeVars, timeVars>>

----------------------------------------------------------------------------
(* qtime.c: _qnx_gettimeofday and _qnx_settimeofday *)

\* the host's clock and the caller's timeval hold seconds up to MaxSec
MaxSec == 2

\* the last microsecond of a second
LastUsec == 999999

\* lines 4-7: what the caller's struct qnx_timeval may hold at a call
QnxTimevals == [tv_sec : 0 .. MaxSec, tv_usec : {-1, 0, 5}]

\* the host's struct timeval values of the wall clock
Clocks == [tv_sec : 1 .. MaxSec, tv_usec : {0, LastUsec}]

\* lines 9-14: both members are converted to the host's wider signed types,
\* which keeps their values
qnx_timeval_to_linux(qt) == [tv_sec |-> qt.tv_sec, tv_usec |-> qt.tv_usec]

IdleTime ==
    /\ tpc = "idle" /\ clock = <<>> /\ when = <<>> /\ root = FALSE
    /\ tcall = "" /\ tv = <<>> /\ tret = <<>>

InitTime ==
    /\ tpc = "out"
    /\ clock \in Clocks
    /\ when \in QnxTimevals
    /\ root \in BOOLEAN
    /\ tcall = ""
    /\ tv = <<>>
    /\ tret = <<>>

\* time passes on the host
Tick ==
    /\ tpc \in {"out", "done"}
    /\ clock.tv_sec < MaxSec
    /\ clock' = IF clock.tv_usec = LastUsec
                THEN [tv_sec |-> clock.tv_sec + 1, tv_usec |-> 0]
                ELSE [clock EXCEPT !.tv_usec = LastUsec]
    /\ UNCHANGED <<tpc, when, root, tcall, tv, tret>>
    /\ UNCHANGED <<spawnVars, flagVars, localeVars, statVars>>

\* lines 26-31: struct timeval t = qnx_timeval_to_linux(*when);
\* return gettimeofday(&t, not_used). The host stores its clock in the local
\* t and returns 0; nothing is stored through when.
QnxGettimeofday ==
    /\ tpc = "out"
    /\ LET t == qnx_timeval_to_linux(when)
           filled == clock
       IN  tv' = filled
    /\ tcall' = "gettimeofday"
    /\ tret' = <<0>>
    /\ tpc' = "done"
    /\ UNCHANGED <<clock, when, root>>
    /\ UNCHANGED <<spawnVars, flagVars, localeVars, statVars>>

\* settimeofday(&t, 0) of the host: EPERM for a caller that may not set the
\* clock, EINVAL for microseconds outside 0 .. 999999
SettimeofdayOk(who, t) == who /\ t.tv_usec \in 0 .. LastUsec

\* lines 33-38: struct timeval t = qnx_timeval_to_linux(*when);
\* return settimeofday(&t, 0)
QnxSettimeofday ==
    /\ tpc = "out"
    /\ LET t == qnx_timeval_to_linux(when)
       IN  /\ tv' = t
           /\ clock' = IF SettimeofdayOk(root, t) THEN t ELSE clock
           /\ tret' = IF SettimeofdayOk(root, t) THEN <<0>> ELSE <<-1>>
    /\ tcall' = "settimeofday"
    /\ tpc' = "done"
    /\ UNCHANGED <<when, root>>
    /\ UNCHANGED <<spawnVars, flagVars, localeVars, statVars>>

----------------------------------------------------------------------------
(* Initial states *)

InitSpawn ==
    /\ entry \in {"spawn", "spawnve"}
    /\ IF entry = "spawn"
       THEN /\ mode = P_NOWAIT
            \* every flag combination with a small table, every table with
            \* no attribute flagged
            /\ \/ inherit \in Inherits /\ fd_map \in SmallTables
               \/ inherit \in PlainInherits /\ fd_map \in Tables
               \/ inherit \in ReservedInherits /\ fd_map \in SmallTables
            /\ pc = [caller |-> "L81", child |-> "none"]
       ELSE /\ mode \in Modes
            /\ inherit \in GarbageAttrs
            /\ fd_map = <<>>
            /\ pc = [caller |-> "L170", child |-> "none"]
    /\ fd_count = Len(fd_map)
    /\ pid = [p \in Procs |-> 0]
    /\ vepid = [p \in Procs |-> 0]
    /\ i = [p \in Procs |-> 0]
    /\ pgid = [p \in Procs |-> Pid.caller]
    /\ sid = [p \in Procs |-> ShellPid]
    /\ blocked = [p \in Procs |-> {}]
    /\ disp = [p \in Procs |-> <<>>]
    /\ rlim = [p \in Procs |-> [cur |-> 8, max |-> "RLIM_INFINITY"]]
    /\ fds = [p \in Procs |-> [n \in FdNums |-> File(n)]]
    /\ calls = [p \in Procs |-> <<>>]
    /\ steps = [p \in Procs |-> <<>>]
    /\ reads = [p \in Procs |-> {}]
    /\ ret = [p \in Procs |-> <<>>]
    /\ veret = [p \in Procs |-> <<>>]
    /\ exitcode = [p \in Procs |-> <<>>]
    /\ status = [p \in Procs |-> <<>>]

IdleSpawn ==
    /\ entry = "idle" /\ mode = 0 /\ inherit = <<>> /\ fd_count = 0 /\ fd_map = <<>>
    /\ pc = <<>> /\ pid = <<>> /\ vepid = <<>> /\ i = <<>> /\ pgid = <<>>
    /\ sid = <<>> /\ blocked = <<>> /\ disp = <<>> /\ rlim = <<>> /\ fds = <<>>
    /\ calls = <<>> /\ steps = <<>> /\ reads = <<>> /\ ret = <<>> /\ veret = <<>>
    /\ exitcode = <<>> /\ status = <<>>

Init == InitSpawn /\ IdleFlags /\ IdleLocale /\ IdleStat /\ IdleTime

----------------------------------------------------------------------------
(* spawn(), spawn.c lines 71-121 *)

Flag(b) == BitAnd(inherit.flags, b) # 0

Logged(p, fn, a, ok) ==
    [calls EXCEPT ![p] = Append(@, [fn |-> fn, a |-> a, ok |-> ok])]

Entered(p, name) == [steps EXCEPT ![p] = Append(@, name)]

\* a spawn() that tests "pid > 0" and so takes a failed fork for the child
ReturnsPidPositive(v) == v > 0

\* line 86: if (pid != 0) return pid;
ReturnsPid(v) == v # 0

\* where a return from spawn() leads: line 189 of spawnve, or the caller's code
ReturnSite == IF entry = "spawnve" THEN "L189" ELSE "caller"

hostVars == <<pgid, sid, blocked, disp, rlim, fds>>
argVars == <<entry, mode, inherit, fd_count, fd_map>>
doneVars == <<veret, exitcode, status>>

\* lines 81-82: exec-in-place, the caller itself takes the child path
ExecInPlace(p) ==
    /\ pc[p] = "L81"
    /\ Flag(SPAWN_EXEC)
    /\ pid' = [pid EXCEPT ![p] = 0]
    /\ pc' = [pc EXCEPT ![p] = "L90"]
    /\ UNCHANGED <<argVars, hostVars, doneVars, vepid, i, calls, steps, ret>>
    /\ UNCHANGED <<reads, flagVars, localeVars, statVars, timeVars>>

\* lines 84-87: fork() succeeds; the parent returns the child's pid, the child
\* goes on at line 90 with a copy of the parent's state
ForkOk(p) ==
    /\ pc[p] = "L81"
    /\ ~Flag(SPAWN_EXEC)
    /\ p = "caller" /\ pc["child"] = "none"
    /\ pid' = [pid EXCEPT ![p] = Pid.child, !["child"] = 0]
    /\ pc' = [pc EXCEPT ![p] = IF ReturnsPid(Pid.child) THEN ReturnSite ELSE "L90",
                        !["child"] = IF ReturnsPid(0) THEN ReturnSite ELSE "L90"]
    /\ ret' = [ret EXCEPT ![p] = IF ReturnsPid(Pid.child) THEN <<Pid.child>> ELSE @,
                          !["child"] = IF ReturnsPid(0) THEN <<0>> ELSE @]
    /\ vepid' = [vepid EXCEPT ![p] = IF ReturnsPid(Pid.child) THEN Pid.child ELSE @]
    /\ calls' = Logged(p, "fork", 0, TRUE)
    /\ pgid' = [pgid EXCEPT !["child"] = pgid[p]]
    /\ sid' = [sid EXCEPT !["child"] = sid[p]]
    /\ blocked' = [blocked EXCEPT !["child"] = blocked[p]]
    /\ disp' = [disp EXCEPT !["child"] = disp[p]]
    /\ rlim' = [rlim EXCEPT !["child"] = rlim[p]]
    /\ fds' = [fds EXCEPT !["child"] = fds[p]]
    /\ UNCHANGED <<argVars, doneVars, i, steps>>
    /\ reads' = [reads EXCEPT !["child"] = reads[p]]
    /\ UNCHANGED <<flagVars, localeVars, statVars, timeVars>>

\* lines 84-87: fork() fails with -1, which spawn() returns
ForkFail(p) ==
    /\ pc[p] = "L81"
    /\ ~Flag(SPAWN_EXEC)
    /\ pid' = [pid EXCEPT ![p] = -1]
    /\ pc' = [pc EXCEPT ![p] = IF ReturnsPid(-1) THEN ReturnSite ELSE "L90"]
    /\ ret' = [ret EXCEPT ![p] = IF ReturnsPid(-1) THEN <<-1>> ELSE @]
    /\ vepid' = [vepid EXCEPT ![p] = IF ReturnsPid(-1) THEN -1 ELSE @]
    /\ calls' = Logged(p, "fork", 0, FALSE)
    /\ UNCHANGED <<argVars, hostVars, doneVars, i, steps>>
    /\ UNCHANGED <<reads, flagVars, localeVars, statVars, timeVars>>

\* a spawn() that loads the field before it tests the flag
FetchedEagerly(flagged, field) == {field}

\* lines 90-98, if (inherit->flags & B) f(inherit->field): the field the
\* statement reads
Fetched(flagged, field) == IF flagged THEN {field} ELSE {}

\* a spawn() that remaps the descriptors before it sets the signal dispositions
AfterRemapFirst(l) ==
    CASE l = "L90" -> "L92"
      [] l = "L92" -> "L94"
      [] l = "L94" -> "L96"
      [] l = "L96" -> "L109"
      [] l = "L109" -> "L100"
      [] l = "L100" -> "L104"
      [] l = "L104" -> "L118"

\* a spawn() that runs the ignore pass before the default pass
AfterIgnoreFirst(l) ==
    CASE l = "L90" -> "L92"
      [] l = "L92" -> "L94"
      [] l = "L94" -> "L96"
      [] l = "L96" -> "L104"
      [] l = "L104" -> "L100"
      [] l = "L100" -> "L109"
      [] l = "L109" -> "L118"

\* the order of the child path, lines 90-118: the line that follows line l
After(l) ==
    CASE l = "L90" -> "L92"
      [] l = "L92" -> "L94"
      [] l = "L94" -> "L96"
      [] l = "L96" -> "L100"
      [] l = "L100" -> "L104"
      [] l = "L104" -> "L109"
      [] l = "L109" -> "L118"

\* lines 90-91
StepSetpgid(p) ==
    /\ pc[p] = "L90"
    /\ pc' = [pc EXCEPT ![p] = After("L90")]
    /\ IF Flag(SPAWN_SETGROUP)
       THEN LET g == inherit.pgroup
                ok == SetpgidOk(p, g)
            IN  /\ steps' = Entered(p, "setpgid")
                /\ calls' = Logged(p, "setpgid", g, ok)
                /\ pgid' = IF ok THEN [pgid EXCEPT ![p] = IF g = 0 THEN Pid[p] ELSE g]
                           ELSE pgid
       ELSE UNCHANGED <<steps, calls, pgid>>
    /\ UNCHANGED <<argVars, doneVars, pid, vepid, i, ret, sid, blocked, disp, rlim, fds>>
    /\ reads' = [reads EXCEPT ![p] = @ \cup Fetched(Flag(SPAWN_SETGROUP), "pgroup")]
    /\ UNCHANGED <<flagVars, localeVars, statVars, timeVars>>

\* lines 92-93
StepSigprocmask(p) ==
    /\ pc[p] = "L92"
    /\ pc' = [pc EXCEPT ![p] = After("L92")]
    /\ IF Flag(SPAWN_SETSIGMASK)
       THEN /\ steps' = Entered(p, "sigprocmask")
            /\ calls' = Logged(p, "sigprocmask", 0, TRUE)
            /\ blocked' = [blocked EXCEPT ![p] = inherit.sigmask \ Unblockable]
       ELSE UNCHANGED <<steps, calls, blocked>>
    /\ UNCHANGED <<argVars, doneVars, pid, vepid, i, ret, pgid, sid, disp, rlim, fds>>
    /\ reads' = [reads EXCEPT ![p] = @ \cup Fetched(Flag(SPAWN_SETSIGMASK), "sigmask")]
    /\ UNCHANGED <<flagVars, localeVars, statVars, timeVars>>

\* lines 94-95
StepSetsid(p) ==
    /\ pc[p] = "L94"
    /\ pc' = [pc EXCEPT ![p] = After("L94")]
    /\ IF Flag(SPAWN_SETSID)
       THEN LET ok == SetsidOk(p)
            IN  /\ steps' = Entered(p, "setsid")
                /\ calls' = Logged(p, "setsid", 0, ok)
                /\ sid' = IF ok THEN [sid EXCEPT ![p] = Pid[p]] ELSE sid
                /\ pgid' = IF ok THEN [pgid EXCEPT ![p] = Pid[p]] ELSE pgid
       ELSE UNCHANGED <<steps, calls, sid, pgid>>
    /\ UNCHANGED <<argVars, doneVars, pid, vepid, i, ret, blocked, disp, rlim, fds>>
    /\ UNCHANGED <<reads, flagVars, localeVars, statVars, timeVars>>

\* lines 96-98
StepSetrlimit(p) ==
    /\ pc[p] = "L96"
    /\ pc' = [pc EXCEPT ![p] = After("L96")]
    /\ IF Flag(SPAWN_SETSTACKMAX)
       THEN /\ steps' = Entered(p, "setrlimit")
            /\ calls' = Logged(p, "setrlimit", inherit.stack_max, TRUE)
            /\ rlim' = [rlim EXCEPT ![p] = [cur |-> inherit.stack_max,
                                            max |-> "RLIM_INFINITY"]]
       ELSE UNCHANGED <<steps, calls, rlim>>
    /\ UNCHANGED <<argVars, doneVars, pid, vepid, i, ret, pgid, sid, blocked, disp, fds>>
    /\ reads' = [reads EXCEPT ![p] = @ \cup Fetched(Flag(SPAWN_SETSTACKMAX), "stack_max")]
    /\ UNCHANGED <<flagVars, localeVars, statVars, timeVars>>

\* the members of a signal set the loop "for (i = ...; i < NSIG; i++)" still meets
Pending(p, set) == {n \in i[p] .. NSIG - 1 : n \in set}

\* line 100: the default pass is entered when flagged
StepSigdef(p) ==
    /\ pc[p] = "L100"
    /\ IF Flag(SPAWN_SETSIGDEF)
       THEN /\ steps' = Entered(p, "sigdefault")
            /\ i' = [i EXCEPT ![p] = 1]
            /\ pc' = [pc EXCEPT ![p] = "L101"]
       ELSE /\ pc' = [pc EXCEPT ![p] = After("L100")]
            /\ UNCHANGED <<steps, i>>
    /\ UNCHANGED <<argVars, hostVars, doneVars, pid, vepid, ret, calls>>
    /\ UNCHANGED <<reads, flagVars, localeVars, statVars, timeVars>>

\* lines 101-103: the loop runs on to the next member of sigdefault and calls
\* signal(i, SIG_DFL), or ends
LoopSigdef(p) ==
    /\ pc[p] = "L101"
    /\ IF Pending(p, inherit.sigdefault) = {}
       THEN /\ pc' = [pc EXCEPT ![p] = After("L100")]
            /\ UNCHANGED <<i, calls, disp>>
       ELSE LET n == Min(Pending(p, inherit.sigdefault))
            IN  /\ calls' = Logged(p, "signal_dfl", n, SignalOk(n))
                /\ disp' = IF SignalOk(n) THEN [disp EXCEPT ![p] = (n :> "dfl") @@ @] ELSE disp
                /\ i' = [i EXCEPT ![p] = n + 1]
                /\ UNCHANGED pc
    /\ UNCHANGED <<argVars, doneVars, pid, vepid, ret, steps, pgid, sid, blocked, rlim, fds>>
    /\ reads' = [reads EXCEPT ![p] = @ \cup (IF i[p] < NSIG THEN {"sigdefault"} ELSE {})]
    /\ UNCHANGED <<flagVars, localeVars, statVars, timeVars>>

\* line 104: the ignore pass is entered when flagged
StepSigign(p) ==
    /\ pc[p] = "L104"
    /\ IF Flag(SPAWN_SETSIGIGN)
       THEN /\ steps' = Entered(p, "sigignore")
            /\ i' = [i EXCEPT ![p] = 1]
            /\ pc' = [pc EXCEPT ![p] = "L105"]
       ELSE /\ pc' = [pc EXCEPT ![p] = After("L104")]
            /\ UNCHANGED <<steps, i>>
    /\ UNCHANGED <<argVars, hostVars, doneVars, pid, vepid, ret, calls>>
    /\ UNCHANGED <<reads, flagVars, localeVars, statVars, timeVars>>

\* lines 105-107: signal(i, SIG_IGN) for the next member of sigignore
LoopSigign(p) ==
    /\ pc[p] = "L105"
    /\ IF Pending(p, inherit.sigignore) = {}
       THEN /\ pc' = [pc EXCEPT ![p] = After("L104")]
            /\ UNCHANGED <<i, calls, disp>>
       ELSE LET n == Min(Pending(p, inherit.sigignore))
            IN  /\ calls' = Logged(p, "signal_ign", n, SignalOk(n))
                /\ disp' = IF SignalOk(n) THEN [disp EXCEPT ![p] = (n :> "ign") @@ @] ELSE disp
                /\ i' = [i EXCEPT ![p] = n + 1]
                /\ UNCHANGED pc
    /\ UNCHANGED <<argVars, doneVars, pid, vepid, ret, steps, pgid, sid, blocked, rlim, fds>>
    /\ reads' = [reads EXCEPT ![p] = @ \cup (IF i[p] < NSIG THEN {"sigignore"} ELSE {})]
    /\ UNCHANGED <<flagVars, localeVars, statVars, timeVars>>

\* line 110: the remapping loop starts, int i = 0
StepRemap(p) ==
    /\ pc[p] = "L109"
    /\ steps' = Entered(p, "remap")
    /\ i' = [i EXCEPT ![p] = 0]
    /\ pc' = [pc EXCEPT ![p] = "L110"]
    /\ UNCHANGED <<argVars, hostVars, doneVars, pid, vepid, ret, calls>>
    /\ UNCHANGED <<reads, flagVars, localeVars, statVars, timeVars>>

\* fd_map[k] of the C array
Src(k) == fd_map[k + 1]

\* dup2(old, new): EBADF when old is not open; otherwise new refers to old's file
Dup2(tab, old, new) == [tab EXCEPT ![new] = tab[old]]

\* lines 110-112: the loop test, the comparison fd_map[i] != i and dup2
LoopRemap(p) ==
    /\ pc[p] = "L110"
    /\ IF i[p] >= fd_count
       THEN /\ pc' = [pc EXCEPT ![p] = After("L109")]
            /\ UNCHANGED <<i, calls, fds>>
       ELSE IF Src(i[p]) = i[p]
       THEN /\ i' = [i EXCEPT ![p] = @ + 1]
            /\ UNCHANGED <<pc, calls, fds>>
       ELSE LET ok == IsOpen(p, Src(i[p]))
            IN  /\ calls' = Logged(p, "dup2", Src(i[p]), ok)
                /\ fds' = IF ok THEN [fds EXCEPT ![p] = Dup2(@, Src(i[p]), i[p])]
                          ELSE fds
                /\ pc' = [pc EXCEPT ![p] = "L113"]
                /\ UNCHANGED i
    /\ UNCHANGED <<argVars, doneVars, pid, vepid, ret, steps, pgid, sid, blocked, disp, rlim>>
    /\ UNCHANGED <<reads, flagVars, localeVars, statVars, timeVars>>

\* line 113: close(fd_map[i]), then i++
CloseSrc(p) ==
    /\ pc[p] = "L113"
    /\ LET ok == IsOpen(p, Src(i[p]))
       IN  /\ calls' = Logged(p, "close", Src(i[p]), ok)
           /\ fds' = IF ok THEN [fds EXCEPT ![p][Src(i[p])] = NoFile] ELSE fds
    /\ i' = [i EXCEPT ![p] = @ + 1]
    /\ pc' = [pc EXCEPT ![p] = "L110"]
    /\ UNCHANGED <<argVars, doneVars, pid, vepid, ret, steps, pgid, sid, blocked, disp, rlim>>
    /\ UNCHANGED <<reads, flagVars, localeVars, statVars, timeVars>>

\* line 118: execve() succeeds; the process runs the new image, in the group
\* and session and with the descriptors it had (what else the new image gets,
\* such as default dispositions for caught signals, is not looked at)
ExecveOk(p) ==
    /\ pc[p] = "L118"
    /\ steps' = Entered(p, "execve")
    /\ calls' = Logged(p, "execve", 0, TRUE)
    /\ pc' = [pc EXCEPT ![p] = "newimage"]
    /\ UNCHANGED <<argVars, hostVars, doneVars, pid, vepid, i, ret>>
    /\ UNCHANGED <<reads, flagVars, localeVars, statVars, timeVars>>

\* line 118: execve() fails and returns; control reaches the closing brace
ExecveFail(p) ==
    /\ pc[p] = "L118"
    /\ steps' = Entered(p, "execve")
    /\ calls' = Logged(p, "execve", 0, FALSE)
    /\ pc' = [pc EXCEPT ![p] = "L121"]
    /\ UNCHANGED <<argVars, hostVars, doneVars, pid, vepid, i, ret>>
    /\ UNCHANGED <<reads, flagVars, localeVars, statVars, timeVars>>

\* lines 120-121: spawn() ends without a return statement. What its caller
\* receives is not defined: some value, which the caller goes on with ...
FallThroughReturn(p) ==
    /\ pc[p] = "L121"
    /\ \E v \in GarbageRet :
          /\ ret' = [ret EXCEPT ![p] = <<v>>]
          /\ vepid' = [vepid EXCEPT ![p] = IF entry = "spawnve" THEN v ELSE @]
    /\ pc' = [pc EXCEPT ![p] = ReturnSite]
    /\ UNCHANGED <<argVars, hostVars, doneVars, pid, i, calls, steps>>
    /\ UNCHANGED <<reads, flagVars, localeVars, statVars, timeVars>>

\* ... or a build that emits no return there at all, and the process faults
FallThroughCrash(p) ==
    /\ pc[p] = "L121"
    /\ pc' = [pc EXCEPT ![p] = "terminated"]
    /\ status' = [status EXCEPT ![p] = <<11>>]
    /\ UNCHANGED <<argVars, hostVars, pid, vepid, i, calls, steps, ret, veret, exitcode>>
    /\ UNCHANGED <<reads, flagVars, localeVars, statVars, timeVars>>

----------------------------------------------------------------------------
(* spawnve(), spawn.c lines 165-198 *)

\* lines 170-187: attr.flags for the mode, <<>> for a mode that is refused
ModeFlags(m) ==
    CASE m = P_WAIT \/ m = P_NOWAIT -> <<0>>
      [] m = P_OVERLAY -> <<SPAWN_EXEC>>
      [] m = P_NOWAITO -> <<SPAWN_NOZOMBIE>>
      [] OTHER -> <<>>

\* lines 170-189: the switch, then the call spawn(path, 0, 0, &attr, argv, envp)
SpawnveSwitch(p) ==
    /\ pc[p] = "L170"
    /\ IF ModeFlags(mode) = <<>>
       THEN /\ veret' = [veret EXCEPT ![p] = <<-1>>]
            /\ pc' = [pc EXCEPT ![p] = "caller"]
            /\ UNCHANGED inherit
       ELSE /\ inherit' = [inherit EXCEPT !.flags = ModeFlags(mode)[1]]
            /\ pc' = [pc EXCEPT ![p] = "L81"]
            /\ UNCHANGED veret
    /\ UNCHANGED <<entry, mode, fd_count, fd_map, hostVars, pid, vepid, i, calls,
                   steps, ret, exitcode, status>>
    /\ UNCHANGED <<reads, flagVars, localeVars, statVars, timeVars>>

\* lines 189-190: is the result waited for?
Waits(v, m) == v # -1 /\ m = P_WAIT

\* lines 189-197 when no wait is made: return pid
SpawnveReturn(p) ==
    /\ pc[p] = "L189"
    /\ IF Waits(vepid[p], mode)
       THEN /\ pc' = [pc EXCEPT ![p] = "L191"]
            /\ UNCHANGED veret
       ELSE /\ pc' = [pc EXCEPT ![p] = "caller"]
            /\ veret' = [veret EXCEPT ![p] = <<vepid[p]>>]
    /\ UNCHANGED <<argVars, hostVars, pid, vepid, i, calls, steps, ret, exitcode, status>>
    /\ UNCHANGED <<reads, flagVars, localeVars, statVars, timeVars>>

\* waitpid(v, ..., 0) by p can collect a child: v names p's terminated child
Waitable(p, v) == p = "caller" /\ v = Pid.child /\ pc["child"] = "terminated"

\* a spawnve() that keeps the status apart and returns the process id
CollectedPid(q) == Pid[q]

\* what waitpid(pid, &pid, 0) leaves in pid for the terminated process q
Collected(q) == status[q][1]

\* lines 191-197: waitpid stores the status word into pid, which is returned
WaitpidOk(p) ==
    /\ pc[p] = "L191"
    /\ Waitable(p, vepid[p])
    /\ calls' = Logged(p, "waitpid", vepid[p], TRUE)
    /\ vepid' = [vepid EXCEPT ![p] = Collected("child")]
    /\ veret' = [veret EXCEPT ![p] = <<Collected("child")>>]
    /\ pc' = [pc EXCEPT ![p] = "caller"]
    /\ UNCHANGED <<argVars, hostVars, pid, i, steps, ret, exitcode, status>>
    /\ UNCHANGED <<reads, flagVars, localeVars, statVars, timeVars>>

\* lines 191-193: waitpid fails (EINTR while it blocks, ECHILD when pid names
\* no child of p) and spawnve returns -1
WaitpidFail(p) ==
    /\ pc[p] = "L191"
    /\ ~Waitable(p, vepid[p])
    /\ calls' = Logged(p, "waitpid", vepid[p], FALSE)
    /\ veret' = [veret EXCEPT ![p] = <<-1>>]
    /\ pc' = [pc EXCEPT ![p] = "caller"]
    /\ UNCHANGED <<argVars, hostVars, pid, vepid, i, steps, ret, exitcode, status>>
    /\ UNCHANGED <<reads, flagVars, localeVars, statVars, timeVars>>

----------------------------------------------------------------------------
(* The created process ends *)

\* the new image runs until it ends; what the caller's code does after spawn()
\* or spawnve() has returned is not modelled
Running(p) == pc[p] = "newimage"

Exit(p) ==
    /\ Running(p)
    /\ \E c \in 0 .. MaxExit :
          /\ exitcode' = [exitcode EXCEPT ![p] = <<c>>]
          /\ status' = [status EXCEPT ![p] = <<WaitStatusExit(c)>>]
    /\ pc' = [pc EXCEPT ![p] = "terminated"]
    /\ UNCHANGED <<argVars, hostVars, pid, vepid, i, calls, steps, ret, veret>>
    /\ UNCHANGED <<reads, flagVars, localeVars, statVars, timeVars>>

Killed(p) ==
    /\ Running(p)
    /\ status' = [status EXCEPT ![p] = <<9>>]
    /\ pc' = [pc EXCEPT ![p] = "terminated"]
    /\ UNCHANGED <<argVars, hostVars, pid, vepid, i, calls, steps, ret, veret, exitcode>>
    /\ UNCHANGED <<reads, flagVars, localeVars, statVars, timeVars>>

----------------------------------------------------------------------------

Next ==
    \E p \in Procs :
        \/ SpawnveSwitch(p)
        \/ ExecInPlace(p)
        \/ ForkOk(p)
        \/ ForkFail(p)
        \/ StepSetpgid(p)
        \/ StepSigprocmask(p)
        \/ StepSetsid(p)
        \/ StepSetrlimit(p)
        \/ StepSigdef(p)
        \/ LoopSigdef(p)
        \/ StepSigign(p)
        \/ LoopSigign(p)
        \/ StepRemap(p)
        \/ LoopRemap(p)
        \/ CloseSrc(p)
        \/ ExecveOk(p)
        \/ ExecveFail(p)
        \/ FallThroughReturn(p)
        \/ FallThroughCrash(p)
        \/ SpawnveReturn(p)
        \/ WaitpidOk(p)
        \/ WaitpidFail(p)
        \/ Exit(p)
        \/ Killed(p)

Spec == Init /\ [][Next]_vars

NextFlags == QnxOpen

FlagsInit == InitFlags /\ IdleSpawn /\ IdleLocale /\ IdleStat /\ IdleTime

SpecFlags == FlagsInit /\ [][NextFlags]_vars

NextLocale ==
    \E t \in Threads :
        \/ LcCall(t)
        \/ LcTest(t)
        \/ LcConvertCopy(t)
        \/ LcConvertNull(t)
        \/ LcSetInitialized(t)
        \/ LcReturn(t)

LocaleInit == InitLocale /\ IdleSpawn /\ IdleFlags /\ IdleStat /\ IdleTime

SpecLocale == LocaleInit /\ [][NextLocale]_vars

NextStat == QnxStatOk \/ QnxStatFail

StatInit == InitStat /\ IdleSpawn /\ IdleFlags /\ IdleLocale /\ IdleTime

SpecStat == StatInit /\ [][NextStat]_vars

NextTime == Tick \/ QnxGettimeofday \/ QnxSettimeofday

TimeInit == InitTime /\ IdleSpawn /\ IdleFlags /\ IdleLocale /\ IdleStat

SpecTime == TimeInit /\ [][NextTime]_vars

----------------------------------------------------------------------------
(* Properties of spawn() *)

Range(q) == {q[k] : k \in 1 .. Len(q)}

\* the place of a step in the mandated order
Rank(st) ==
    CASE st = "setpgid" -> 1
      [] st = "sigprocmask" -> 2
      [] st = "setsid" -> 3
      [] st = "setrlimit" -> 4
      [] st = "sigdefault" -> 5
      [] st = "sigignore" -> 6
      [] st = "remap" -> 7
      [] st = "execve" -> 8

\* the flag that enables a step
StepFlag ==
    [setpgid |-> SPAWN_SETGROUP, sigprocmask |-> SPAWN_SETSIGMASK,
     setsid |-> SPAWN_SETSID, setrlimit |-> SPAWN_SETSTACKMAX,
     sigdefault |-> SPAWN_SETSIGDEF, sigignore |-> SPAWN_SETSIGIGN]

\* the step a host call belongs to
CallStep(fn) ==
    CASE fn \in {"signal_dfl"} -> "sigdefault"
      [] fn \in {"signal_ign"} -> "sigignore"
      [] fn \in {"dup2", "close"} -> "remap"
      [] OTHER -> fn

\* the host calls of the inheritance steps
InheritCalls == {"setpgid", "sigprocmask", "setsid", "setrlimit", "signal_dfl",
                 "signal_ign", "dup2", "close"}

ChildPathCalls(p) == SelectSeq(calls[p], LAMBDA c : c.fn \in InheritCalls \cup {"execve"})

\* C1: in the child path the enabled steps occur in the order process group,
\* signal mask, session, stack limit, default pass, ignore pass, descriptor
\* remapping, execve; each at most once, none that is not flagged, none out of
\* order; the remapping starts only when every flagged earlier step has been
\* made and is over, and execve comes only after the remapping.
C1_StepOrder ==
    \A p \in Procs :
        /\ \A j, k \in 1 .. Len(steps[p]) :
              j < k => Rank(steps[p][j]) < Rank(steps[p][k])
        /\ \A st \in Range(steps[p]) \cap DOMAIN StepFlag : Flag(StepFlag[st])
        /\ "remap" \in Range(steps[p]) =>
              \A st \in DOMAIN StepFlag : Flag(StepFlag[st]) => st \in Range(steps[p])
        /\ "execve" \in Range(steps[p]) => "remap" \in Range(steps[p])
        /\ LET cs == ChildPathCalls(p)
           IN  \A j, k \in 1 .. Len(cs) :
                  j < k => Rank(CallStep(cs[j].fn)) <= Rank(CallStep(cs[k].fn))
        /\ \A k \in 1 .. Len(calls[p]) :
              calls[p][k].fn \in InheritCalls \cup {"execve"} =>
                  CallStep(calls[p][k].fn) \in Range(steps[p])

\* C1's case: a process went through all eight steps, a dup2 among its calls
C1_Witness ==
    \E p \in Procs :
        /\ Len(steps[p]) = 8
        /\ \E k \in 1 .. Len(calls[p]) : calls[p][k].fn = "dup2"

RemapDone(p) == pc[p] = "L118" \/ "execve" \in Range(steps[p])

\* C2: after the remapping step, for every entry whose source was open when
\* spawn() was entered, descriptor i refers to the file descriptor fd_map[i]
\* referred to then, and a source that differs from its target is closed.
C2_RemapAsTable ==
    \A p \in Procs :
        RemapDone(p) =>
            \A k \in 0 .. fd_count - 1 :
                Src(k) \in FdNums =>
                    /\ fds[p][k] = File(Src(k))
                    /\ Src(k) # k => fds[p][Src(k)] = NoFile

ExecFailed(p) == \E k \in 1 .. Len(calls[p]) :
                    calls[p][k].fn = "execve" /\ ~calls[p][k].ok

\* C3: a process in which execve failed never returns from spawn().
C3_NoReturnAfterExecFailure ==
    \A p \in Procs : ExecFailed(p) => ret[p] = <<>>

ForkFailed(p) == \E k \in 1 .. Len(calls[p]) :
                    calls[p][k].fn = "fork" /\ ~calls[p][k].ok

\* C4: when fork() fails, spawn() returns -1 to its caller, no process is
\* created, and no step of the child path runs in any process: no host call
\* but the fork is made and the caller's group, session, mask, dispositions,
\* limit and descriptors are what they were.
C4_ForkFailure ==
    \A p \in Procs :
        ForkFailed(p) =>
            /\ ret[p] = <<-1>>
            /\ pc["child"] = "none"
            /\ \A q \in Procs : steps[q] = <<>>
            /\ Len(calls[p]) = 1
            /\ pgid[p] = Pid.caller /\ sid[p] = ShellPid /\ blocked[p] = {}
            /\ \A n \in SigNums : DispOf(p, n) = EntryDisp[n]
            /\ rlim[p] = [cur |-> 8, max |-> "RLIM_INFINITY"]
            /\ fds[p] = [n \in FdNums |-> File(n)]

\* C4's case: fork failed in a direct call of spawn() that had steps flagged
C4_Witness ==
    /\ entry = "spawn"
    /\ ForkFailed("caller")
    /\ Flag(SPAWN_SETGROUP) /\ Flag(SPAWN_SETSID) /\ fd_count > 0
    /\ ret["caller"] = <<-1>>

\* C5: with SPAWN_SETSID and SPAWN_SETGROUP both flagged, the process that
\* reaches execve leads its own session and its own process group.
C5_SessionLeaderOutcome ==
    \A p \in Procs :
        ("execve" \in Range(steps[p]) /\ Flag(SPAWN_SETSID) /\ Flag(SPAWN_SETGROUP)) =>
            sid[p] = Pid[p] /\ pgid[p] = Pid[p]

AfterDispositions(p) == pc[p] \in {"L109", "L110", "L113", "L118"}

\* what the fixed pass order gives for a signal, with ign and dfl telling
\* whether the ignore pass and the default pass reach it: ignore over default
\* over inherited
PassOrderDisp(ign, dfl, inherited) ==
    IF ign THEN "ign" ELSE IF dfl THEN "dfl" ELSE inherited

WaitpidMade(p, ok) == \E k \in 1 .. Len(calls[p]) :
                         calls[p][k].fn = "waitpid" /\ calls[p][k].ok = ok

\* C7 as stated: in P_WAIT mode spawnve returns only after the created process
\* has terminated, and returns the code c the process exited with.
C7_ReturnsExitCode ==
    (entry = "spawnve" /\ mode = P_WAIT /\ veret["caller"] # <<>> /\ pc["child"] # "none") =>
        /\ pc["child"] = "terminated"
        /\ exitcode["child"] # <<>> => veret["caller"] = exitcode["child"]

\* C7, amended: in P_WAIT mode, in the calling process, spawnve returns -1
\* when fork or waitpid fails; otherwise it returns only after the created
\* process has terminated, and returns the wait status word waitpid stored,
\* unchanged: (c mod 256) * 256 for a process that exited with code c.
C7_ReturnsWaitStatus ==
    (entry = "spawnve" /\ mode = P_WAIT /\ veret["caller"] # <<>>) =>
        IF WaitpidMade("caller", TRUE)
        THEN /\ pc["child"] = "terminated"
             /\ veret["caller"] = status["child"]
             /\ \A c \in 0 .. MaxExit :
                   exitcode["child"] = <<c>> => veret["caller"] = <<(c % 256) * 256>>
        ELSE /\ veret["caller"] = <<-1>>
             /\ ForkFailed("caller") \/ WaitpidMade("caller", FALSE)

\* C7's case: the child exited with a code other than 0 and the wait returned
C7_Witness ==
    /\ entry = "spawnve" /\ mode = P_WAIT
    /\ WaitpidMade("caller", TRUE)
    /\ exitcode["child"] = <<1>>
    /\ veret["caller"] = <<256>>

\* C9: once a host call of an inheritance step has failed in a process, that
\* process makes no further host call: the failed call is its last, and the
\* next thing it does is return the error sentinel.
C9_FailureStopsSpawn ==
    \A p \in Procs :
        \A k \in 1 .. Len(calls[p]) :
            (calls[p][k].fn \in InheritCalls /\ ~calls[p][k].ok) =>
                /\ k = Len(calls[p])
                /\ ret[p] # <<>> => ret[p] = <<-1>>

\* lines 90-107: the flag bit that governs a payload field
Governing ==
    [pgroup |-> SPAWN_SETGROUP, sigmask |-> SPAWN_SETSIGMASK,
     sigdefault |-> SPAWN_SETSIGDEF, sigignore |-> SPAWN_SETSIGIGN,
     stack_max |-> SPAWN_SETSTACKMAX]

\* the host calls that take no payload field
PayloadFree == {"fork", "execve", "waitpid"}

\* spawn() went on in the caller: it called fork, or took the child path
WentOn == calls["caller"] # <<>> \/ Flag(SPAWN_EXEC)

\* C13: a process reads a payload field of the inheritance descriptor only
\* when the field's governing bit is set in flags. Under spawnve, whatever
\* the other fields of attr hold, no payload field is read, no host call is
\* made that takes one, and group, session, mask, dispositions and stack limit
\* of every process stay what they were. A reserved bit such as
\* SPAWN_NOZOMBIE is not rejected: spawn() goes on to fork or to the child
\* path, and returns -1 only when fork or execve failed.
C13_PayloadGuarded ==
    /\ \A p \in Procs : \A f \in reads[p] : Flag(Governing[f])
    /\ entry = "spawnve" =>
          \A p \in Procs :
              /\ reads[p] = {}
              /\ \A k \in 1 .. Len(calls[p]) : calls[p][k].fn \in PayloadFree
              /\ pgid[p] = Pid.caller /\ sid[p] = ShellPid /\ blocked[p] = {}
              /\ disp[p] = <<>>
              /\ rlim[p] = [cur |-> 8, max |-> "RLIM_INFINITY"]
    /\ (Flag(SPAWN_NOZOMBIE) /\ pc["caller"] \notin {"L170", "L81"}) =>
          /\ WentOn
          /\ \A p \in Procs : ret[p] = <<-1>> => ForkFailed(p) \/ ExecFailed(p)

\* C13's case: a direct call with SPAWN_NOZOMBIE, SPAWN_SETGROUP and
\* SPAWN_SETSIGDEF set; the child has reached execve, having read pgroup and
\* sigdefault and nothing else
C13_Witness ==
    /\ entry = "spawn"
    /\ inherit.flags = SPAWN_NOZOMBIE + SPAWN_SETGROUP + SPAWN_SETSIGDEF
    /\ "execve" \in Range(steps["child"])
    /\ reads["child"] = {"pgroup", "sigdefault"}
    /\ ret["caller"] = <<Pid.child>>

----------------------------------------------------------------------------
(* Properties of qnx_flag_to_linux *)

\* the twelve open-mode flags, foreign value and host value
OpenFlags ==
    { <<QNX_O_RDONLY, O_RDONLY>>, <<QNX_O_WRONLY, O_WRONLY>>, <<QNX_O_RDWR, O_RDWR>>,
      <<QNX_O_NONBLOCK, O_NONBLOCK>>, <<QNX_O_APPEND, O_APPEND>>,
      <<QNX_O_DSYNC, O_DSYNC>>, <<QNX_O_RSYNC, O_RSYNC>>, <<QNX_O_SYNC, O_SYNC>>,
      <<QNX_O_CREAT, O_CREAT>>, <<QNX_O_TRUNC, O_TRUNC>>, <<QNX_O_EXCL, O_EXCL>>,
      <<QNX_O_NOCTTY, O_NOCTTY>> }

\* the positions of the bits set in x, from position k on
RECURSIVE BitsFrom(_, _)
BitsFrom(x, k) ==
    IF x = 0 THEN {}
    ELSE (IF x % 2 = 1 THEN {k} ELSE {}) \cup BitsFrom(x \div 2, k + 1)

BitsOf(x) == BitsFrom(x, 0)

\* the flags whose foreign bit is set in x
SetIn(x) == {fl \in OpenFlags : BitsOf(fl[1]) \cap BitsOf(x) # {}}

\* C8: the translated word holds every host bit of every flag whose foreign
\* bit is set in the input, and no bit that is not a host bit of such a flag;
\* foreign bits that belong to no flag add nothing.
C8_ExactHostBits ==
    fpc = "open" =>
        BitsOf(hflags[1]) = UNION {BitsOf(fl[2]) : fl \in SetIn(qflags)}

\* C8's case: several flags and a foreign bit of no flag are set, and O_SYNC,
\* a host value of more than one bit, is in the result
C8_Witness ==
    /\ fpc = "open"
    /\ qflags = QNX_O_RDWR + QNX_O_APPEND + QNX_O_SYNC + QNX_O_CREAT + 4 + 4096
    /\ hflags = <<O_RDWR + O_APPEND + O_SYNC + O_CREAT>>

----------------------------------------------------------------------------
(* Properties of _qnx_localeconv *)

\* C10: the conversion into the shared record runs at most once, exactly once
\* when a call has returned, and the record is not written after a call has
\* returned its address.
C10_ConvertedOnce ==
    /\ conversions <= 1
    /\ returned => conversions = 1
    /\ ~lateWrite

----------------------------------------------------------------------------
(* Properties of linux_stat_to_qnx *)

Converted == spc = "done" /\ sret = <<0>> /\ buf # NullBuf

\* the foreign fields that take the host field of the same name
SameNamed == {"st_ino", "st_size", "st_uid", "st_gid", "st_nlink"}

\* the host time a legacy field stands for
LegacyOf == [f \in OldTimeFields |->
                CASE f = "__old_st_mtime" -> "st_mtim"
                  [] f = "__old_st_atime" -> "st_atim"
                  [] f = "__old_st_ctime" -> "st_ctim"]

\* C11: after a successful _qnx_stat, st_ino, st_size, st_uid, st_gid and
\* st_nlink of the foreign record have the values of the host fields of the
\* same name; st_mtim, st_atim and st_ctim equal the host's, seconds and
\* nanoseconds; each legacy time field holds the low 32 bits of the seconds
\* of the host time of its name, which is the host value when that fits in
\* 32 bits; and every field of the foreign record has been written.
C11_StatTranscoded ==
    Converted =>
        /\ DOMAIN buf = QnxStatFields
        /\ \A f \in SameNamed : Zext(buf[f]) = Zext(hoststat[f])
        /\ \A f \in TimFields : buf[f] = hoststat[f]
        /\ \A f \in OldTimeFields :
              LET secs == hoststat[LegacyOf[f]].tv_sec
              IN  /\ buf[f] = SubSeq(secs, 1, Limbs32)
                  /\ Fits32(secs) => Zext(buf[f]) = secs

\* C11's case: a file whose three times differ, the modification time beyond
\* 32 bits and the access time within, with an inode number beyond 32 bits
C11_Witness ==
    /\ Converted
    /\ hoststat.st_ino = Word64(1, 1)
    /\ hoststat.st_mtim.tv_sec = Word64(7, 1)
    /\ hoststat.st_atim.tv_sec = Word64(7, 0)
    /\ hoststat.st_ctim.tv_sec = MinusOne64
    /\ buf["__old_st_mtime"] = Word32(7, 0)
    /\ buf["__old_st_ctime"] = Word32(LimbMax, LimbMax)
    /\ buf["st_ino"] = Word64(1, 1)

----------------------------------------------------------------------------
(* Properties of _qnx_gettimeofday *)

\* C12: after a successful _qnx_gettimeofday the caller's timeval holds the
\* seconds and microseconds the host's gettimeofday returned, whatever it
\* held before the call.
C12_WhenHoldsHostTime ==
    (tcall = "gettimeofday" /\ tret = <<0>>) =>
        /\ when.tv_sec = tv.tv_sec
        /\ when.tv_usec = tv.tv_usec

====
